---------------------------- MODULE Spec2Model ----------------------------
(* A model of letsencrypt/x509search: Search.Execute (search.go), the     *)
(* match cachers (cacher), the Boulder data source stub and the Static CT *)
(* API data source (staticctapi).                                         *)
EXTENDS Integers, Sequences, FiniteSets, TLC

(***************************************************************************)
(* Bounds of the model.                                                    *)
(***************************************************************************)
\* Entries per data tile (256 in staticctapi/log.go:128-130), scaled down.
TileSize == 2

(***************************************************************************)
(* Values.                                                                 *)
(***************************************************************************)
Nil == "nil"

\* context.Canceled, the error of an externally cancelled context.
CtxErr == "context canceled"

\* DER byte strings the data sources may send.  "A", "B", "C" are
\* certificates both filters accept, "D" is one the user's DERFilter
\* rejects, "F" one the user's Filter rejects, "X" is not parseable.
Bytes == {"A", "B", "C", "D", "F", "X"}

ErrorBehaviorCancel == "ErrorBehaviorCancel"
ErrorBehaviorContinue == "ErrorBehaviorContinue"

\* The unrecoverable error the synthetic data source i fails with.
SrcErr(i) == IF i = 1 THEN "source 1: unrecoverable error" ELSE "source 2: unrecoverable error"

\* What a synthetic data source holds: the byte strings it sends, in order,
\* unless it fails or is cancelled before.
Contents ==
    { <<"A", "B">>, <<"B", "C">>, <<"A", "A">>, <<"X", "A">>, <<"D", "F">> }

\* The lists of data sources a Search is configured with.
DataSourceLists ==
    { <<>>,
      <<"sourcer">>,
      <<"sourcer", "sourcer">>,
      <<"boulder">>,
      <<"boulder", "sourcer">> }

\* A log of two full tiles; its entries are ordered by timestamp.
Entry(ts, pre, b) ==
    [ Timestamp |-> ts,
      IsPrecert |-> pre,
      Certificate |-> IF pre THEN Nil ELSE b,
      PreCertificate |-> IF pre THEN b ELSE Nil ]

TheLog ==
    << Entry(10, TRUE, "A"), Entry(20, FALSE, "B") >>
        \o [ k \in 1..(TileSize - 2) |-> Entry(20, FALSE, "B") ]
        \o << Entry(20, FALSE, "C"), Entry(30, TRUE, "D") >>
        \o [ k \in 1..(TileSize - 2) |-> Entry(30, TRUE, "D") ]

\* The staticctapi.DataSource values: Log is the sequence of the log's
\* entries, or "nil".
CTDataSources ==
    [ Log : {Nil, TheLog},
      IncludePrecertificates : BOOLEAN,
      IncludeCertificates : BOOLEAN,
      StartTimeInclusive : {10, 25},
      EndTimeInclusive : {10, 30, 99},
      MaxConnections : {0, 2} ]

NoDataSource ==
    [ Log |-> Nil, IncludePrecertificates |-> FALSE, IncludeCertificates |-> FALSE,
      StartTimeInclusive |-> 0, EndTimeInclusive |-> 0, MaxConnections |-> 0 ]

\* The Search values Execute is called on.  A field that is "nil" is unset.
AllSearches ==
    [ DERFilter : {Nil, "user"},
      Filter : {Nil, "user"},
      MatchCallback : {Nil, "user"},
      DataSources : DataSourceLists,
      MatchCacher : {Nil, "NopCacher", "Sha256MapCacher"},
      DataSourceErrorBehavior : {ErrorBehaviorCancel, ErrorBehaviorContinue} ]

\* The Search values over a staticctapi data source.
CTSearches ==
    [ DERFilter : {"user"},
      Filter : {"user"},
      MatchCallback : {"user"},
      DataSources : { <<"staticctapi">>, <<"boulder", "staticctapi">> },
      MatchCacher : {"Sha256MapCacher"},
      DataSourceErrorBehavior : {ErrorBehaviorCancel, ErrorBehaviorContinue} ]

\* With two data sources the filters are set and the cacher is given.
Searches ==
    { x \in AllSearches :
        Len(x.DataSources) > 1 =>
            /\ x.DERFilter # Nil
            /\ x.Filter # Nil
            /\ x.MatchCacher # Nil }

VARIABLES
    s,            \* the Search value (read-only during Execute)
    data,         \* data[i]: the byte strings data source i holds
    ds,           \* the staticctapi.DataSource value and the log it reads
    ctxAtCall,    \* ctx.Err() of the caller's context when Execute is called
    lg,           \* a call of a function on its own, outside of Execute
    wrapped,      \* context.WithCancelCause has run (search.go:120)
    cause,        \* context.Cause of the search context, Nil while not cancelled
    firstCause,   \* history: the error of the first cancellation of the search context
    pc,           \* position of the consumer (the caller of Execute)
    ret,          \* what Execute returned
    wg,           \* the sync.WaitGroup counter
    src,          \* src[i]: state of data source i's task
    srcRet,       \* srcRet[i]: what data source i's Source returned
    sends,        \* sends[i]: how many byte strings data source i has sent
    certs,        \* the buffered bytes channel
    closed,       \* the bytes channel is closed
    closes,       \* history: the tasks that closed the bytes channel, in order
    closer,       \* state of the closer task
    cur,          \* certBytes of the consumer's current iteration
    matches,      \* the Sha256MapCacher's map keys
    calls,        \* user-supplied calls in progress
    ct,           \* the tasks of staticctapi.DataSource.Source
    panicked,     \* the program panicked (a send on, or a close of, a closed channel)
    sent,         \* history: sent[b] = how often b was sent on the channel
    parsedH,      \* history: byte strings handed to x509.ParseCertificate
    filterH,      \* history: byte strings whose certificate was handed to Filter
    cacheH,       \* history: byte strings whose certificate was handed to Cache
    missH,        \* history: byte strings for which Cache returned false
    delivered     \* history: delivered[b] = how often MatchCallback was invoked on b

vars == << s, data, ds, ctxAtCall, lg, wrapped, cause, firstCause, pc, ret, wg, src,
           srcRet, sends, certs, closed, closes, closer, cur, matches, calls,
           ct, panicked, sent, parsedH, filterH, cacheH, missH, delivered >>

cfgVars == << s, data, ds, ctxAtCall, lg >>
histVars == << sent, parsedH, filterH, cacheH, missH, delivered >>

N == Len(s.DataSources)
Sources == 1..N

(***************************************************************************)
(* Pure functions.                                                         *)
(***************************************************************************)

\* search.go:183 ValidateParameters
ValidateParametersNoSourceCheck(search) ==
    IF search.DERFilter = Nil /\ search.Filter = Nil THEN "nil filter functions"
    ELSE IF search.MatchCallback = Nil THEN "nil match callback function"
    ELSE Nil
ValidateParameters(search) ==
    IF search.DERFilter = Nil /\ search.Filter = Nil THEN "nil filter functions"
    ELSE IF search.MatchCallback = Nil THEN "nil match callback function"
    ELSE IF Len(search.DataSources) = 0 THEN "no data sources"
    ELSE Nil

\* The user's DERFilter and Filter of this model.
UserDERFilter(b) == b # "D"
UserFilter(cert) == cert.Raw # "F"

\* search.go:107-118: both filters default to matching everything.
derFilter(b) == IF s.DERFilter = Nil THEN TRUE ELSE UserDERFilter(b)
filter(cert) == IF s.Filter = Nil THEN TRUE ELSE UserFilter(cert)

\* x509.ParseCertificate: an error, or a certificate whose Raw is the input.
ParseCertificateLenient(b) == [err |-> Nil, cert |-> [Raw |-> b]]
ParseCertificate(b) ==
    IF b = "X" THEN [err |-> "x509: malformed certificate", cert |-> Nil]
    ELSE [err |-> Nil, cert |-> [Raw |-> b]]

\* sha256.Sum256, collision-free on the model's byte strings.
Sum256(raw) == <<"sha256", raw>>

\* NopCacher.Cache
NopCacherCache(m, cert) == [present |-> FALSE, certs |-> m]

\* Sha256MapCacher.Cache
Sha256MapCacherCacheNoStore(m, cert) ==
    [present |-> Sum256(cert.Raw) \in m, certs |-> m]
Sha256MapCacherCache(m, cert) ==
    LET hash == Sum256(cert.Raw)
    IN [present |-> hash \in m, certs |-> m \cup {hash}]

\* The bits of the Bloom filter that the k = 2 hash functions of this model
\* give a certificate's raw bytes, out of m = 3: any two certificates share a
\* bit, and two of them cover the bits of the third.
BloomLocations(raw) ==
    IF raw = "A" THEN {1, 2}
    ELSE IF raw = "B" THEN {2, 3}
    ELSE IF raw = "C" THEN {1, 3}
    ELSE {1, 2, 3}

\* BloomCacher.Cache: filter.TestOrAdd(cert.Raw) reports whether every bit of
\* the certificate was set, and sets them.
BloomCacherCacheTestOnly(m, cert) ==
    [present |-> BloomLocations(cert.Raw) \subseteq m, certs |-> m]
BloomCacherCache(m, cert) ==
    [present |-> BloomLocations(cert.Raw) \subseteq m,
     certs |-> m \cup BloomLocations(cert.Raw)]

\* search.go:101-104 and :174: matches.Cache(cert)
matchesCacheNop(m, cert) == NopCacherCache(m, cert)
matchesCache(m, cert) ==
    IF s.MatchCacher = "Sha256MapCacher" THEN Sha256MapCacherCache(m, cert)
    ELSE NopCacherCache(m, cert)

\* context.CancelCauseFunc: the first call sets the cause, later calls do nothing.
cancelOverwrite(c, err) == err
cancel(c, err) == IF c = Nil THEN err ELSE c

\* The history of the first cancellation.
First(err) == IF firstCause = Nil /\ cause = Nil THEN err ELSE firstCause

\* search.go:132
ShouldCancelAlways(err) == err # Nil
ShouldCancel(err) == err # Nil /\ s.DataSourceErrorBehavior = ErrorBehaviorCancel

\* A user-supplied call in progress.
Call(fn) == [task |-> "consumer", fn |-> fn]

Inc(f, x) == [f EXCEPT ![x] = @ + 1]

(***************************************************************************)
(* The state when Execute is called.                                       *)
(***************************************************************************)
\* staticctapi.DataSource.Source has not been called.
\* taken, failed and causeAtReturn are histories: the tile indices the workers
\* took from workChan, the tiles whose fetch failed, and context.Cause(ctx)
\* when Source returned.
CTIdle ==
    [ pc |-> "start", startIndex |-> -1, endIndex |-> -1, currentIndex |-> -1,
      workChan |-> <<>>, workClosed |-> FALSE, worker |-> <<>>,
      taken |-> <<>>, failed |-> {}, causeAtReturn |-> Nil ]

ExecuteInit ==
    /\ ctxAtCall \in {Nil, CtxErr}
    /\ wrapped = FALSE
    /\ cause = Nil
    /\ firstCause = Nil
    /\ pc = "start"
    /\ ret = "none"
    /\ wg = 0
    /\ src = [i \in 1..Len(s.DataSources) |-> "idle"]
    /\ srcRet = [i \in 1..Len(s.DataSources) |-> "none"]
    /\ sends = [i \in 1..Len(s.DataSources) |-> 0]
    /\ certs = <<>>
    /\ closed = FALSE
    /\ closes = <<>>
    /\ closer = "idle"
    /\ cur = Nil
    /\ matches = {}
    /\ calls = {}
    /\ panicked = FALSE
    /\ sent = [b \in Bytes |-> 0]
    /\ parsedH = {}
    /\ filterH = {}
    /\ cacheH = {}
    /\ missH = {}
    /\ delivered = [b \in Bytes |-> 0]

\* No function is called on its own.
NoLogCall == [ op |-> "none", done |-> TRUE ]

\* Execute is called on a Search over synthetic and Boulder data sources.
Init ==
    /\ lg = NoLogCall
    /\ s \in Searches
    /\ data \in [1..Len(s.DataSources) -> Contents \cup {<<>>}]
    /\ \A i \in 1..Len(s.DataSources) :
          data[i] = <<>> <=> s.DataSources[i] # "sourcer"
    /\ ds = NoDataSource
    /\ ct = CTIdle
    /\ ExecuteInit

\* Execute is called on a Search over a staticctapi data source.
InitCT ==
    /\ lg = NoLogCall
    /\ s \in CTSearches
    /\ data = [i \in 1..Len(s.DataSources) |-> <<>>]
    /\ ds \in CTDataSources
    /\ ct = CTIdle
    /\ ExecuteInit

(***************************************************************************)
(* Search.Execute, search.go:89-181.                                       *)
(***************************************************************************)

\* search.go:90-120: validation, the context pre-check, the defaults and
\* context.WithCancelCause.
ExecuteValidate ==
    /\ ~panicked
    /\ pc = "start"
    /\ LET err == ValidateParameters(s)
       IN IF err # Nil
          THEN /\ ret' = err
               /\ pc' = "returned"
               /\ UNCHANGED wrapped
          ELSE IF ctxAtCall # Nil
          THEN /\ ret' = ctxAtCall
               /\ pc' = "returned"
               /\ UNCHANGED wrapped
          ELSE /\ wrapped' = TRUE
               /\ pc' = "spawn"
               /\ UNCHANGED ret
    /\ UNCHANGED << cfgVars, ct, histVars, cause, firstCause, wg, src, srcRet,
                    sends, certs, closed, closes, closer, cur, matches, calls,
                    panicked >>

\* search.go:126-137: one iteration of the loop: wg.Add(1) and go func().
SpawnSource(i) ==
    /\ ~panicked
    /\ pc = "spawn"
    /\ src[i] = "idle"
    /\ \A j \in 1..(i - 1) : src[j] # "idle"
    /\ wg' = wg + 1
    /\ src' = [src EXCEPT ![i] = "running"]
    /\ UNCHANGED << cfgVars, ct, histVars, wrapped, cause, firstCause, pc, ret,
                    srcRet, sends, certs, closed, closes, closer, cur, matches,
                    calls, panicked >>

\* search.go:139-142: the closer task is started after the loop.
SpawnCloser ==
    /\ ~panicked
    /\ pc = "spawn"
    /\ \A i \in Sources : src[i] # "idle"
    /\ closer' = "waiting"
    /\ pc' = "select"
    /\ UNCHANGED << cfgVars, ct, histVars, wrapped, cause, firstCause, ret, wg,
                    src, srcRet, sends, certs, closed, closes, cur, matches, calls,
                    panicked >>

\* The caller's context is cancelled while Execute runs; the search context
\* derived from it is cancelled with the same error.  (A cancellation of an
\* already cancelled context changes nothing.)
ExternalCancel ==
    /\ ~panicked
    /\ wrapped
    /\ cause' = cancel(cause, CtxErr)
    /\ firstCause' = First(CtxErr)
    /\ UNCHANGED << cfgVars, ct, histVars, wrapped, pc, ret, wg, src, srcRet, sends,
                    certs, closed, closes, closer, cur, matches, calls, panicked >>

\* search.go:128-136: source task i after dataSource.Source returned r:
\* cancel(err) under the Cancel policy, then the deferred wg.Done().
SourceReturns(i, r) ==
    /\ ~panicked
    /\ src[i] = "running"
    /\ srcRet' = [srcRet EXCEPT ![i] = r]
    /\ src' = [src EXCEPT ![i] = "done"]
    /\ wg' = wg - 1
    /\ IF ShouldCancel(r)
       THEN /\ cause' = cancel(cause, r)
            /\ firstCause' = First(r)
       ELSE UNCHANGED << cause, firstCause >>
    /\ UNCHANGED << cfgVars, histVars, wrapped, pc, ret, sends, certs,
                    closed, closes, closer, cur, matches, calls, panicked >>

\* search.go:140: wg.Wait() returns.
WgWaitNoWait == TRUE
WgWait == wg = 0

\* search.go:139-142: the closer task.
CloserClose ==
    /\ ~panicked
    /\ closer = "waiting"
    /\ WgWait
    /\ closer' = "done"
    /\ closed' = TRUE
    /\ closes' = Append(closes, "closer")
    /\ panicked' = closed
    /\ UNCHANGED << cfgVars, ct, histVars, wrapped, cause, firstCause, pc, ret,
                    wg, src, srcRet, sends, certs, cur, matches, calls >>

(***************************************************************************)
(* Data sources (the Sourcer interface, search.go:22-34).                  *)
(***************************************************************************)

\* A Sourcer sends b on the certs channel: a send blocks while the buffer is
\* full and panics on a closed channel.
SourcerSend(i) ==
    /\ ~panicked
    /\ s.DataSources[i] = "sourcer"
    /\ src[i] = "running"
    /\ sends[i] < Len(data[i])
    /\ IF closed
       THEN /\ panicked' = TRUE
            /\ UNCHANGED << certs, sends, sent >>
       ELSE /\ Len(certs) < N
            /\ certs' = Append(certs, data[i][sends[i] + 1])
            /\ sends' = Inc(sends, i)
            /\ sent' = Inc(sent, data[i][sends[i] + 1])
            /\ UNCHANGED panicked
    /\ UNCHANGED << cfgVars, ct, parsedH, filterH, cacheH, missH, delivered, wrapped,
                    cause, firstCause, pc, ret, wg, src, srcRet, closed, closes,
                    closer, cur, matches, calls >>

\* What a Sourcer may return: nil once it is exhausted, its unrecoverable
\* error at any time, ctx.Err() when the context is cancelled before it is
\* exhausted.
SourcerResults(i) ==
    {SrcErr(i)}
        \cup (IF sends[i] = Len(data[i]) THEN {Nil} ELSE {})
        \cup (IF sends[i] < Len(data[i]) /\ cause # Nil THEN {CtxErr} ELSE {})

SourcerReturn(i) ==
    /\ s.DataSources[i] = "sourcer"
    /\ \E r \in SourcerResults(i) : SourceReturns(i, r)
    /\ UNCHANGED ct

\* boulder.DataSource.Source is a stub that fails.
BoulderSource(i) ==
    /\ s.DataSources[i] = "boulder"
    /\ SourceReturns(i, "not implemented")
    /\ UNCHANGED ct

(***************************************************************************)
(* staticctapi: the log client, staticctapi/log.go.                        *)
(***************************************************************************)

\* Log.GetTileEntries: the full tile at tileIndex, or an error when the log
\* holds no full tile there.
GetTileEntries(log, tileIndex) ==
    IF tileIndex >= 0 /\ (tileIndex + 1) * TileSize <= Len(log)
    THEN [ err |-> Nil,
           entries |-> SubSeq(log, tileIndex * TileSize + 1, (tileIndex + 1) * TileSize) ]
    ELSE [ err |-> "unexpected response status", entries |-> <<>> ]

\* Log.GetLastFullTileIndex: treeSize / 256.
GetLastFullTileIndex(log) == Len(log) \div TileSize

\* Log.GetTileIndexFromTime, the loop of log.go:205-225.  fetches counts the
\* tiles requested and trace records each iteration's interval and pivot.
RECURSIVE TileSearch(_, _, _, _)
TileSearch(log, t, startIndex, endIndex) ==
    IF startIndex > endIndex
    THEN [ err |-> "timestamp doesn't fall within the time bounds of the log entries",
           index |-> -1, fetches |-> 0, trace |-> <<>> ]
    ELSE LET pivotIndex == (startIndex + endIndex) \div 2
             tile == GetTileEntries(log, pivotIndex)
             iteration == [ startIndex |-> startIndex, endIndex |-> endIndex,
                            pivotIndex |-> pivotIndex ]
             Fetched(r) == [r EXCEPT !.fetches = @ + 1, !.trace = <<iteration>> \o @]
         IN IF tile.err # Nil
            THEN [ err |-> "getting entries for tile", index |-> -1, fetches |-> 1,
                   trace |-> <<iteration>> ]
            ELSE IF t < tile.entries[1].Timestamp
            THEN Fetched(TileSearch(log, t, startIndex, pivotIndex - 1))
            ELSE IF t > tile.entries[TileSize].Timestamp
            THEN Fetched(TileSearch(log, t, pivotIndex + 1, endIndex))
            ELSE [ err |-> Nil, index |-> pivotIndex, fetches |-> 1,
                   trace |-> <<iteration>> ]

\* Log.GetTileIndexFromTime
GetTileIndexFromTimeNoNegativeCheck(log, t, startTile, endTile) ==
    TileSearch(log, t, startTile, endTile)
GetTileIndexFromTime(log, t, startTile, endTile) ==
    IF startTile < 0
    THEN [ err |-> "negative startTile", index |-> -1, fetches |-> 0, trace |-> <<>> ]
    ELSE TileSearch(log, t, startTile, endTile)

\* Log.GetBoundingTilesFromTimes; fetches counts the requests made to the
\* log: the checkpoint and the tiles.
GetBoundingTilesFromTimesNoOrderCheck(log, startTime, endTime) ==
    LET lastTile == GetLastFullTileIndex(log)
        first == GetTileIndexFromTime(log, startTime, 0, lastTile)
    IN IF first.err # Nil
       THEN [ err |-> "getting index of start tile", startIndex |-> -1, endIndex |-> -1,
              fetches |-> 1 + first.fetches ]
       ELSE LET last == GetTileIndexFromTime(log, endTime, first.index, lastTile)
            IN IF last.err # Nil
               THEN [ err |-> "getting index of end tile",
                      startIndex |-> -1, endIndex |-> -1,
                      fetches |-> 1 + first.fetches + last.fetches ]
               ELSE [ err |-> Nil, startIndex |-> first.index, endIndex |-> last.index,
                      fetches |-> 1 + first.fetches + last.fetches ]
GetBoundingTilesFromTimes(log, startTime, endTime) ==
    IF ~(startTime < endTime)
    THEN [ err |-> "start time is not before end time", startIndex |-> -1, endIndex |-> -1,
           fetches |-> 0 ]
    ELSE LET lastTile == GetLastFullTileIndex(log)
             first == GetTileIndexFromTime(log, startTime, 0, lastTile)
         IN IF first.err # Nil
            THEN [ err |-> "getting index of start tile", startIndex |-> -1, endIndex |-> -1,
                   fetches |-> 1 + first.fetches ]
            ELSE LET last == GetTileIndexFromTime(log, endTime, first.index, lastTile)
                 IN IF last.err # Nil
                    THEN [ err |-> "getting index of end tile",
                           startIndex |-> -1, endIndex |-> -1,
                           fetches |-> 1 + first.fetches + last.fetches ]
                    ELSE [ err |-> Nil, startIndex |-> first.index, endIndex |-> last.index,
                           fetches |-> 1 + first.fetches + last.fetches ]

(***************************************************************************)
(* staticctapi: tile paths and the retry policy, log.go and retry.go.      *)
(***************************************************************************)

\* The decimal digits of n >= 0, most significant first.
RECURSIVE Decimal(_)
Decimal(n) == IF n < 10 THEN <<n>> ELSE Decimal(n \div 10) \o <<n % 10>>

\* fmt.Sprintf("%03d", n) for n >= 0: the digits, zero-padded to three.
Sprintf03d(n) ==
    LET d == Decimal(n)
    IN IF Len(d) >= 3 THEN d ELSE [k \in 1..(3 - Len(d)) |-> 0] \o d

\* One segment of a tile path: "DDD", or "xDDD" when x is set.  A path is
\* the sequence of its segments, which the code joins with "/".
Segment(x, digits) == [ x |-> x, digits |-> digits ]

\* log.go:25-28, the loop of TilePathFromIndex
RECURSIVE TilePathLoop(_, _)
TilePathLoop(path, remainder) ==
    IF remainder = 0 THEN path
    ELSE TilePathLoop(<< Segment(TRUE, Sprintf03d(remainder % 1000)) >> \o path,
                      remainder \div 1000)

\* TilePathFromIndex, for tileIndex >= 0
TilePathFromIndexOneGroup(tileIndex) ==
    LET path == << Segment(FALSE, Sprintf03d(tileIndex % 1000)) >>
        remainder == tileIndex \div 1000
    IN IF remainder = 0 THEN path
       ELSE << Segment(TRUE, Sprintf03d(remainder % 1000)) >> \o path
TilePathFromIndex(tileIndex) ==
    TilePathLoop(<< Segment(FALSE, Sprintf03d(tileIndex % 1000)) >>, tileIndex \div 1000)

\* The Retry values of this model, in seconds.
Retries == [ MaxAttempts : -1..3, MaxInterval : -1..2, Timeout : -1..3 ]

\* retry.go:10-14
DefaultTileRetry == [ MaxAttempts |-> 5, MaxInterval |-> 1, Timeout |-> 5 ]

\* Retry.Validate
ValidateNoOrderCheck(r) ==
    IF r.MaxAttempts < 1 THEN "max attempts less than one"
    ELSE IF r.MaxInterval <= 0 THEN "max interval less than or equal to zero"
    ELSE IF r.Timeout <= 0 THEN "timeout less than or equal to zero"
    ELSE Nil
Validate(r) ==
    IF r.MaxAttempts < 1 THEN "max attempts less than one"
    ELSE IF r.MaxInterval <= 0 THEN "max interval less than or equal to zero"
    ELSE IF r.Timeout <= 0 THEN "timeout less than or equal to zero"
    ELSE IF r.Timeout <= r.MaxInterval THEN "timeout less than or equal to max interval"
    ELSE Nil

\* Retry.createBackoff, retry.go:53: the retries backoff.WithMaxRetries allows
\* after the first attempt.
MaxRetriesOffByOne(r) == r.MaxAttempts
MaxRetries(r) == r.MaxAttempts - 1

\* log.go:147-150: the policy GetTileEntriesWithBackoff builds its backoff from.
TileBackoff(tileRetry) ==
    IF Validate(tileRetry) = Nil THEN tileRetry ELSE DefaultTileRetry

(***************************************************************************)
(* staticctapi.DataSource.Source, log.go:297-356.                          *)
(***************************************************************************)

\* log.go:306-309
Concurrency == IF ds.MaxConnections > 1 THEN ds.MaxConnections ELSE 1

Workers == DOMAIN ct.worker

\* What the bounding search of log.go:311 may come to: its result when every
\* request is answered, a failed request, and only failed requests once the
\* context is cancelled.
BoundingResults ==
    IF ~(ds.StartTimeInclusive < ds.EndTimeInclusive)
    THEN { GetBoundingTilesFromTimes(ds.Log, ds.StartTimeInclusive, ds.EndTimeInclusive) }
    ELSE { [ err |-> "requesting checkpoint", startIndex |-> -1, endIndex |-> -1,
             fetches |-> 1 ] }
            \cup (IF cause = Nil
                  THEN { GetBoundingTilesFromTimes(ds.Log, ds.StartTimeInclusive,
                                                   ds.EndTimeInclusive) }
                  ELSE {})

\* Source leaves the search's variables alone.
SourceRuns ==
    UNCHANGED << cfgVars, histVars, wrapped, cause, firstCause, pc, ret, wg, src,
                 srcRet, sends, certs, closed, closes, closer, cur, matches, calls,
                 panicked >>

\* log.go:298-352: the checks, the bounding search, and the start of the
\* enumerator and of the workers.
CTSourceStart(i) ==
    /\ ~panicked
    /\ s.DataSources[i] = "staticctapi"
    /\ src[i] = "running"
    /\ ct.pc = "start"
    /\ IF ds.Log = Nil
       THEN /\ SourceReturns(i, "nil log")
            /\ ct' = [ct EXCEPT !.pc = "returned", !.causeAtReturn = cause]
       ELSE IF ~(ds.IncludeCertificates \/ ds.IncludePrecertificates)
       THEN /\ SourceReturns(i, "neither precertficates nor certificates are selected")
            /\ ct' = [ct EXCEPT !.pc = "returned", !.causeAtReturn = cause]
       ELSE \E r \in BoundingResults :
               IF r.err # Nil
               THEN /\ SourceReturns(i, "determining search bounds")
                    /\ ct' = [ct EXCEPT !.pc = "returned", !.causeAtReturn = cause]
               ELSE /\ ct' = [ct EXCEPT !.pc = "run",
                                        !.startIndex = r.startIndex,
                                        !.endIndex = r.endIndex,
                                        !.currentIndex = r.startIndex,
                                        !.worker = [w \in 1..Concurrency |->
                                                      [pc |-> "range", tileIndex |-> -1, entry |-> 0]]]
                    /\ SourceRuns

\* log.go:321-326: the enumerator sends the next tile index on workChan, and
\* closes it after the last.
CTEnumerate ==
    /\ ~panicked
    /\ ct.pc \in {"run", "returned"}
    /\ ct.currentIndex >= 0
    /\ ~ct.workClosed
    /\ IF ct.currentIndex <= ct.endIndex
       THEN /\ Len(ct.workChan) < Concurrency
            /\ ct' = [ct EXCEPT !.workChan = Append(@, ct.currentIndex),
                                !.currentIndex = @ + 1]
       ELSE ct' = [ct EXCEPT !.workClosed = TRUE]
    /\ SourceRuns

\* log.go:332: a worker takes the next tile index, or leaves the loop when
\* workChan is closed and drained (and runs its deferred wg.Done()).
CTWorkerRange(w) ==
    /\ ~panicked
    /\ ct.worker[w].pc = "range"
    /\ IF ct.workChan # <<>>
       THEN ct' = [ct EXCEPT !.workChan = Tail(@),
                             !.taken = Append(@, Head(ct.workChan)),
                             !.worker[w] = [pc |-> "fetch", tileIndex |-> Head(ct.workChan),
                                            entry |-> 0]]
       ELSE /\ ct.workClosed
            /\ ct' = [ct EXCEPT !.worker[w] = [pc |-> "exit", tileIndex |-> -1, entry |-> 0]]
    /\ SourceRuns

\* log.go:334-337: where a worker goes on after a failed fetch; `continue`
\* takes it back to the range over workChan.
WorkerAfterErrorReturn == "exit"
WorkerAfterError == "range"

\* log.go:333-337: GetTileEntriesWithBackoff returns the tile's entries, or
\* an error (always, once the context is cancelled) and the tile is skipped.
CTWorkerFetch(w) ==
    /\ ~panicked
    /\ ct.worker[w].pc = "fetch"
    /\ \E answered \in (IF cause = Nil THEN {TRUE, FALSE} ELSE {FALSE}) :
          IF answered /\ GetTileEntries(ds.Log, ct.worker[w].tileIndex).err = Nil
          THEN ct' = [ct EXCEPT !.worker[w].pc = "emit", !.worker[w].entry = 1]
          ELSE ct' = [ct EXCEPT !.worker[w].pc = WorkerAfterError,
                                !.failed = @ \cup {ct.worker[w].tileIndex}]
    /\ SourceRuns

\* log.go:339-349: the byte string a worker sends for an entry, Nil for none.
EmittedIgnoringFlags(entry) ==
    IF entry.IsPrecert THEN entry.PreCertificate ELSE entry.Certificate
Emitted(entry) ==
    IF entry.IsPrecert
    THEN (IF ds.IncludePrecertificates THEN entry.PreCertificate ELSE Nil)
    ELSE (IF ds.IncludeCertificates THEN entry.Certificate ELSE Nil)

\* log.go:339-349: one iteration of a worker's loop over the tile's entries;
\* the send blocks while the buffer of certs is full.
CTWorkerEmit(i, w) ==
    /\ ~panicked
    /\ s.DataSources[i] = "staticctapi"
    /\ ct.worker[w].pc = "emit"
    /\ LET entries == GetTileEntries(ds.Log, ct.worker[w].tileIndex).entries
           b == Emitted(entries[ct.worker[w].entry])
       IN /\ IF b = Nil
             THEN UNCHANGED << certs, sends, sent, panicked >>
             ELSE IF closed
             THEN /\ panicked' = TRUE
                  /\ UNCHANGED << certs, sends, sent >>
             ELSE /\ Len(certs) < N
                  /\ certs' = Append(certs, b)
                  /\ sends' = Inc(sends, i)
                  /\ sent' = Inc(sent, b)
                  /\ UNCHANGED panicked
          /\ IF ct.worker[w].entry < Len(entries)
             THEN ct' = [ct EXCEPT !.worker[w].entry = @ + 1]
             ELSE ct' = [ct EXCEPT !.worker[w].pc = "range"]
    /\ UNCHANGED << cfgVars, parsedH, filterH, cacheH, missH, delivered, wrapped,
                    cause, firstCause, pc, ret, wg, src, srcRet, closed, closes,
                    closer, cur, matches, calls >>

\* log.go:354-355: wg.Wait() returns once every worker is done; Source
\* returns nil.
CTSourceWait(i) ==
    /\ ~panicked
    /\ s.DataSources[i] = "staticctapi"
    /\ ct.pc = "run"
    /\ \A w \in Workers : ct.worker[w].pc = "exit"
    /\ SourceReturns(i, Nil)
    /\ ct' = [ct EXCEPT !.pc = "returned", !.causeAtReturn = cause]

(***************************************************************************)
(* The consumer loop, search.go:144-180.                                   *)
(***************************************************************************)

\* search.go:146-147
ConsumerCtxDone ==
    /\ ~panicked
    /\ pc = "select"
    /\ cause # Nil
    /\ ret' = cause
    /\ pc' = "returned"
    /\ UNCHANGED << cfgVars, ct, histVars, wrapped, cause, firstCause, wg, src,
                    srcRet, sends, certs, closed, closes, closer, cur, matches,
                    calls, panicked >>

\* search.go:148-152: the receive reports a closed and drained channel.
ConsumerRecvClosed ==
    /\ ~panicked
    /\ pc = "select"
    /\ closed
    /\ certs = <<>>
    /\ ret' = Nil
    /\ pc' = "returned"
    /\ UNCHANGED << cfgVars, ct, histVars, wrapped, cause, firstCause, wg, src,
                    srcRet, sends, certs, closed, closes, closer, cur, matches,
                    calls, panicked >>

\* search.go:148 and :156: a byte string is received and derFilter is called.
ConsumerRecv ==
    /\ ~panicked
    /\ pc = "select"
    /\ certs # <<>>
    /\ cur' = Head(certs)
    /\ certs' = Tail(certs)
    /\ calls' = calls \cup {Call("DERFilter")}
    /\ pc' = "derFilter"
    /\ UNCHANGED << cfgVars, ct, histVars, wrapped, cause, firstCause, ret, wg,
                    src, srcRet, sends, closed, closes, closer, matches, panicked >>

\* search.go:156: whether the loop goes on to parse after derFilter.
DERFilterPassesAlways(b) == TRUE
DERFilterPasses(b) == derFilter(b)

\* search.go:156-168: derFilter returns; the certificate is parsed and
\* filter is called.
ConsumerDERFilter ==
    /\ ~panicked
    /\ pc = "derFilter"
    /\ IF ~DERFilterPasses(cur)
       THEN /\ pc' = "select"
            /\ calls' = calls \ {Call("DERFilter")}
            /\ UNCHANGED << parsedH, filterH >>
       ELSE /\ parsedH' = parsedH \cup {cur}
            /\ IF ParseCertificate(cur).err # Nil
               THEN /\ pc' = "select"
                    /\ calls' = calls \ {Call("DERFilter")}
                    /\ UNCHANGED filterH
               ELSE /\ pc' = "filter"
                    /\ calls' = (calls \ {Call("DERFilter")}) \cup {Call("Filter")}
                    /\ filterH' = filterH \cup {cur}
    /\ UNCHANGED << cfgVars, ct, sent, cacheH, missH, delivered, wrapped, cause,
                    firstCause, ret, wg, src, srcRet, sends, certs, closed, closes,
                    closer, cur, matches, panicked >>

\* search.go:168-174: filter returns; matches.Cache is called.
ConsumerFilter ==
    /\ ~panicked
    /\ pc = "filter"
    /\ IF ~filter(ParseCertificate(cur).cert)
       THEN /\ pc' = "select"
            /\ calls' = calls \ {Call("Filter")}
            /\ UNCHANGED cacheH
       ELSE /\ pc' = "cache"
            /\ calls' = (calls \ {Call("Filter")}) \cup {Call("Cache")}
            /\ cacheH' = cacheH \cup {cur}
    /\ UNCHANGED << cfgVars, ct, sent, parsedH, filterH, missH, delivered, wrapped,
                    cause, firstCause, ret, wg, src, srcRet, sends, certs, closed,
                    closes, closer, cur, matches, panicked >>

\* search.go:174-178: matches.Cache returns; MatchCallback is called.
ConsumerCache ==
    /\ ~panicked
    /\ pc = "cache"
    /\ LET r == matchesCache(matches, ParseCertificate(cur).cert)
       IN /\ matches' = r.certs
          /\ IF r.present
             THEN /\ pc' = "select"
                  /\ calls' = calls \ {Call("Cache")}
                  /\ UNCHANGED << missH, delivered >>
             ELSE /\ pc' = "callback"
                  /\ missH' = missH \cup {cur}
                  /\ calls' = (calls \ {Call("Cache")}) \cup {Call("MatchCallback")}
                  /\ delivered' = Inc(delivered, cur)
    /\ UNCHANGED << cfgVars, ct, sent, parsedH, filterH, cacheH, wrapped, cause,
                    firstCause, ret, wg, src, srcRet, sends, certs, closed, closes,
                    closer, cur, panicked >>

\* search.go:178: the calls in progress once the loop goes on after
\* s.MatchCallback(cert).
CallbackDetached(c) == c
CallbackReturned(c) == c \ {Call("MatchCallback")}

\* search.go:178-180: MatchCallback returns and the loop goes on.
ConsumerCallback ==
    /\ ~panicked
    /\ pc = "callback"
    /\ calls' = CallbackReturned(calls)
    /\ pc' = "select"
    /\ UNCHANGED << cfgVars, ct, histVars, wrapped, cause, firstCause, ret, wg,
                    src, srcRet, sends, certs, closed, closes, closer, cur, matches,
                    panicked >>

Next ==
    \/ ExecuteValidate
    \/ \E i \in Sources : SpawnSource(i)
    \/ SpawnCloser
    \/ ExternalCancel
    \/ \E i \in Sources : SourcerSend(i)
    \/ \E i \in Sources : SourcerReturn(i)
    \/ \E i \in Sources : BoulderSource(i)
    \/ CloserClose
    \/ ConsumerCtxDone
    \/ ConsumerRecvClosed
    \/ ConsumerRecv
    \/ ConsumerDERFilter
    \/ ConsumerFilter
    \/ ConsumerCache
    \/ ConsumerCallback

Spec == Init /\ [][Next]_vars

\* The Go scheduler runs every task that can take a step: the caller of
\* Execute, each source task and the closer; a data source sends what it holds
\* and returns.  Nothing obliges the caller's context to be cancelled.
Fair ==
    /\ WF_vars(ExecuteValidate)
    /\ WF_vars(\E i \in Sources : SpawnSource(i))
    /\ WF_vars(SpawnCloser)
    /\ \A i \in 1..2 : WF_vars(i \in Sources /\ SourcerSend(i))
    /\ \A i \in 1..2 : WF_vars(i \in Sources /\ SourcerReturn(i))
    /\ \A i \in 1..2 : WF_vars(i \in Sources /\ BoulderSource(i))
    /\ WF_vars(CloserClose)
    /\ WF_vars(ConsumerCtxDone \/ ConsumerRecvClosed \/ ConsumerRecv)
    /\ WF_vars(ConsumerDERFilter)
    /\ WF_vars(ConsumerFilter)
    /\ WF_vars(ConsumerCache)
    /\ WF_vars(ConsumerCallback)

FairSpec == Spec /\ Fair

\* Execute over a staticctapi data source.
NextCT ==
    \/ ExecuteValidate
    \/ \E i \in Sources : SpawnSource(i)
    \/ SpawnCloser
    \/ ExternalCancel
    \/ \E i \in Sources : BoulderSource(i)
    \/ \E i \in Sources : CTSourceStart(i)
    \/ CTEnumerate
    \/ \E w \in Workers : CTWorkerRange(w)
    \/ \E w \in Workers : CTWorkerFetch(w)
    \/ \E i \in Sources : \E w \in Workers : CTWorkerEmit(i, w)
    \/ \E i \in Sources : CTSourceWait(i)
    \/ CloserClose
    \/ ConsumerCtxDone
    \/ ConsumerRecvClosed
    \/ ConsumerRecv
    \/ ConsumerDERFilter
    \/ ConsumerFilter
    \/ ConsumerCache
    \/ ConsumerCallback

SpecCT == InitCT /\ [][NextCT]_vars

\* The Go scheduler runs every task that can take a step: the caller of
\* Execute, each source task, the closer, the enumerator and each worker.
\* Nothing obliges the caller's context to be cancelled.
FairCT ==
    /\ WF_vars(ExecuteValidate)
    /\ WF_vars(\E i \in Sources : SpawnSource(i))
    /\ WF_vars(SpawnCloser)
    /\ WF_vars(\E i \in Sources : BoulderSource(i))
    /\ WF_vars(\E i \in Sources : CTSourceStart(i))
    /\ WF_vars(CTEnumerate)
    /\ \A w \in 1..2 : WF_vars(w \in Workers /\ CTWorkerRange(w))
    /\ \A w \in 1..2 : WF_vars(w \in Workers /\ CTWorkerFetch(w))
    /\ \A w \in 1..2 : WF_vars(w \in Workers /\ \E i \in Sources : CTWorkerEmit(i, w))
    /\ WF_vars(\E i \in Sources : CTSourceWait(i))
    /\ WF_vars(CloserClose)
    /\ WF_vars(ConsumerCtxDone \/ ConsumerRecvClosed \/ ConsumerRecv)
    /\ WF_vars(ConsumerDERFilter)
    /\ WF_vars(ConsumerFilter)
    /\ WF_vars(ConsumerCache)
    /\ WF_vars(ConsumerCallback)

FairSpecCT == SpecCT /\ FairCT

(***************************************************************************)
(* The functions of package staticctapi, each called on its own.           *)
(***************************************************************************)

\* The logs: every sequence of up to two full tiles and a partial one, with
\* entries of any timestamps.
LogTimes == {10, 20, 30}
QueryTimes == {5, 10, 15, 20, 25, 30, 35}
MaxTreeSize == 2 * TileSize + 1
Logs == UNION { [1..n -> { Entry(ts, FALSE, "A") : ts \in LogTimes }] : n \in 0..MaxTreeSize }

\* Longer logs, of LongTiles full tiles, each tile with one timestamp, in
\* non-decreasing order.
LongTiles == 5

LongLogs ==
    { [ k \in 1..(LongTiles * TileSize) |->
          Entry(f[((k - 1) \div TileSize) + 1], FALSE, "A") ] :
        f \in { g \in [1..LongTiles -> LogTimes] :
                  \A i \in 1..(LongTiles - 1) : g[i] <= g[i + 1] } }

\* The tile indices TilePathFromIndex is called on.
TileIndexes ==
    (0..1001) \cup {1999, 2000, 999998, 999999, 1000000, 1000001, 1999999, 2000000,
                    999999999, 1000000000}

LogCall(op, in, out) == [ op |-> op, in |-> in, done |-> FALSE, out |-> out ]

\* GetTileEntriesWithBackoff is called: no attempt was made yet.  attempts,
\* afterCancel and successes are histories: the calls of GetTileEntries, those
\* made with the context already cancelled, and those that succeeded.
BackoffCalls ==
    [ op : {"GetTileEntriesWithBackoff"}, in : [TileRetry : Retries], done : {FALSE},
      out : {[err |-> "none"]}, phase : {"operation"}, numTries : {0},
      ctxErr : {Nil, CtxErr}, attempts : {0}, afterCancel : {0}, successes : {0} ]

\* The variables of Search.Execute.
execVars == << s, data, ds, ctxAtCall, wrapped, cause, firstCause, pc, ret, wg, src,
               srcRet, sends, certs, closed, closes, closer, cur, matches, calls,
               ct, panicked, sent, parsedH, filterH, cacheH, missH, delivered >>

\* One function of package staticctapi is called; Execute is not.
InitLog ==
    /\ \/ lg \in { LogCall("TilePathFromIndex", [tileIndex |-> i], <<>>) : i \in TileIndexes }
       \/ lg \in { LogCall("Validate", [r |-> r], "none") : r \in Retries }
       \/ lg \in { LogCall("GetLastFullTileIndex", [log |-> l], -1) : l \in Logs }
       \/ lg \in { LogCall("GetTileIndexFromTime",
                            [log |-> l, t |-> t, startTile |-> lo, endTile |-> hi],
                            [err |-> "none", index |-> -1, fetches |-> 0]) :
                        l \in Logs, t \in QueryTimes, lo \in -1..1, hi \in 0..2 }
       \/ lg \in { LogCall("GetTileIndexFromTime",
                            [log |-> l, t |-> t, startTile |-> lo, endTile |-> hi],
                            [err |-> "none", index |-> -1, fetches |-> 0]) :
                        l \in LongLogs, t \in QueryTimes, lo \in 0..1,
                        hi \in (LongTiles - 2)..LongTiles }
       \/ lg \in { LogCall("GetBoundingTilesFromTimes",
                            [log |-> l, startTime |-> t1, endTime |-> t2],
                            [err |-> "none", startIndex |-> -1, endIndex |-> -1,
                             fetches |-> 0]) :
                        l \in Logs, t1 \in QueryTimes, t2 \in QueryTimes }
       \/ lg \in BackoffCalls
    /\ s = [ DERFilter |-> Nil, Filter |-> Nil, MatchCallback |-> Nil, DataSources |-> <<>>,
             MatchCacher |-> Nil, DataSourceErrorBehavior |-> ErrorBehaviorCancel ]
    /\ data = <<>>
    /\ ds = NoDataSource
    /\ ct = CTIdle
    /\ ctxAtCall = Nil
    /\ ExecuteInit

Returns(out) == lg' = [lg EXCEPT !.done = TRUE, !.out = out]

CallTilePathFromIndex ==
    /\ lg.op = "TilePathFromIndex"
    /\ ~lg.done
    /\ Returns(TilePathFromIndex(lg.in.tileIndex))
    /\ UNCHANGED execVars

CallValidate ==
    /\ lg.op = "Validate"
    /\ ~lg.done
    /\ Returns(Validate(lg.in.r))
    /\ UNCHANGED execVars

CallGetLastFullTileIndex ==
    /\ lg.op = "GetLastFullTileIndex"
    /\ ~lg.done
    /\ Returns(GetLastFullTileIndex(lg.in.log))
    /\ UNCHANGED execVars

CallGetTileIndexFromTime ==
    /\ lg.op = "GetTileIndexFromTime"
    /\ ~lg.done
    /\ Returns(GetTileIndexFromTime(lg.in.log, lg.in.t, lg.in.startTile, lg.in.endTile))
    /\ UNCHANGED execVars

CallGetBoundingTilesFromTimes ==
    /\ lg.op = "GetBoundingTilesFromTimes"
    /\ ~lg.done
    /\ Returns(GetBoundingTilesFromTimes(lg.in.log, lg.in.startTime, lg.in.endTime))
    /\ UNCHANGED execVars

\* log.go:146-157, GetTileEntriesWithBackoff: backoff.RetryWithData calls the
\* operation, GetTileEntries, and returns when it succeeds.  When it fails,
\* the backoff is asked for the next interval: it stops when the context is
\* done, when the retries of createBackoff are used up, or when Timeout has
\* elapsed; otherwise the timer is started.  A request made with a cancelled
\* context fails.
BackoffOperation ==
    /\ lg.op = "GetTileEntriesWithBackoff"
    /\ ~lg.done
    /\ lg.phase = "operation"
    /\ \E ok \in (IF lg.ctxErr = Nil THEN BOOLEAN ELSE {FALSE}), elapsed \in BOOLEAN :
          LET bo == TileBackoff(lg.in.TileRetry)
              stop == \/ lg.ctxErr # Nil
                      \/ MaxRetries(bo) = 0
                      \/ lg.numTries >= MaxRetries(bo)
                      \/ elapsed
              called == [lg EXCEPT !.attempts = @ + 1,
                                   !.afterCancel = IF lg.ctxErr # Nil THEN @ + 1 ELSE @]
          IN IF ok
             THEN lg' = [called EXCEPT !.done = TRUE, !.phase = "returned",
                                       !.successes = @ + 1, !.out = [err |-> Nil]]
             ELSE IF stop
             THEN lg' = [called EXCEPT !.done = TRUE, !.phase = "returned",
                                       !.out = [err |-> IF lg.ctxErr # Nil THEN lg.ctxErr
                                                        ELSE "requesting tile"]]
             ELSE lg' = [called EXCEPT !.phase = "timer", !.numTries = @ + 1]
    /\ UNCHANGED execVars

\* The select of backoff.RetryWithData: the timer fires and the operation is
\* called again.
BackoffTimer ==
    /\ lg.op = "GetTileEntriesWithBackoff"
    /\ ~lg.done
    /\ lg.phase = "timer"
    /\ lg' = [lg EXCEPT !.phase = "operation"]
    /\ UNCHANGED execVars

\* The select of backoff.RetryWithData: the context is done and its error is
\* returned.
BackoffCtxDone ==
    /\ lg.op = "GetTileEntriesWithBackoff"
    /\ ~lg.done
    /\ lg.phase = "timer"
    /\ lg.ctxErr # Nil
    /\ lg' = [lg EXCEPT !.done = TRUE, !.phase = "returned", !.out = [err |-> lg.ctxErr]]
    /\ UNCHANGED execVars

\* The context GetTileEntriesWithBackoff was called with is cancelled.
BackoffCancel ==
    /\ lg.op = "GetTileEntriesWithBackoff"
    /\ ~lg.done
    /\ lg.ctxErr = Nil
    /\ lg' = [lg EXCEPT !.ctxErr = CtxErr]
    /\ UNCHANGED execVars

NextLog ==
    \/ CallTilePathFromIndex
    \/ CallValidate
    \/ CallGetLastFullTileIndex
    \/ CallGetTileIndexFromTime
    \/ CallGetBoundingTilesFromTimes
    \/ BackoffOperation
    \/ BackoffTimer
    \/ BackoffCtxDone
    \/ BackoffCancel

SpecLog == InitLog /\ [][NextLog]_vars

(***************************************************************************)
(* The cachers, fed the same certificates.                                 *)
(***************************************************************************)

\* The longest sequence of certificates the cachers are fed.
MaxCerts == 4

CertSeqs == UNION { [1..n -> {"A", "B", "C"}] : n \in 0..MaxCerts }

\* A BloomCacher and a Sha256MapCacher, both fresh, are about to be fed the
\* same certificates in[1], in[2], ...; k of them were fed.  bloomCalls and
\* shaCalls count the MatchCallback invocations of search.go:174-178 with
\* each cacher, bloomDelivered those per certificate with the BloomCacher.
InitCacher ==
    /\ lg \in [ op : {"Cache"}, in : CertSeqs, done : {FALSE}, k : {0},
                 bloom : {{}}, sha : {{}}, bloomCalls : {0}, shaCalls : {0},
                 bloomDelivered : {[b \in {"A", "B", "C"} |-> 0]} ]
    /\ s = [ DERFilter |-> Nil, Filter |-> Nil, MatchCallback |-> Nil, DataSources |-> <<>>,
             MatchCacher |-> Nil, DataSourceErrorBehavior |-> ErrorBehaviorCancel ]
    /\ data = <<>>
    /\ ds = NoDataSource
    /\ ct = CTIdle
    /\ ctxAtCall = Nil
    /\ ExecuteInit

\* search.go:174-178 with each cacher: Cache is called on the next
\* certificate, and MatchCallback when it returns false.
CacheNext ==
    /\ lg.op = "Cache"
    /\ ~lg.done
    /\ IF lg.k = Len(lg.in)
       THEN lg' = [lg EXCEPT !.done = TRUE]
       ELSE LET cert == [Raw |-> lg.in[lg.k + 1]]
                b == BloomCacherCache(lg.bloom, cert)
                m == Sha256MapCacherCache(lg.sha, cert)
            IN lg' = [lg EXCEPT !.k = @ + 1,
                                !.bloom = b.certs,
                                !.sha = m.certs,
                                !.bloomCalls = IF b.present THEN @ ELSE @ + 1,
                                !.shaCalls = IF m.present THEN @ ELSE @ + 1,
                                !.bloomDelivered[cert.Raw] = IF b.present THEN @ ELSE @ + 1]
    /\ UNCHANGED execVars

NextCacher == CacheNext

SpecCacher == InitCacher /\ [][NextCacher]_vars

(***************************************************************************)
(* Properties of Search.Execute.                                           *)
(***************************************************************************)

ErrorsReturned == { srcRet[i] : i \in Sources } \ {"none", Nil}

\* b passes DERFilter, parses and passes Filter.
Accepted(b) ==
    /\ derFilter(b)
    /\ ParseCertificate(b).err = Nil
    /\ filter(ParseCertificate(b).cert)

RECURSIVE SumOver(_, _)
SumOver(f, S) ==
    IF S = {} THEN 0
    ELSE LET x == CHOOSE y \in S : TRUE IN f[x] + SumOver(f, S \ {x})

Callbacks == SumOver(delivered, Bytes)

ReturnedNil == wrapped /\ pc = "returned" /\ ret = Nil

\* C1: the bytes channel is closed at most once, only by the closer task and
\* only when every source task's Source call has returned; no source is
\* running while the channel is closed, and none sends on a closed channel.
C1_CloseAfterSources ==
    /\ Len(closes) <= 1
    /\ \A k \in 1..Len(closes) : closes[k] = "closer"
    /\ closed <=> Len(closes) = 1
    /\ closed => \A i \in Sources : src[i] = "done" /\ srcRet[i] # "none"
    /\ ~panicked

C1_Witness ==
    /\ closed
    /\ N = 2
    /\ \A i \in Sources : sends[i] = 2

\* C2: with a Sha256MapCacher, MatchCallback has been invoked at most once
\* per certificate fingerprint, in every state of every run.
C2_AtMostOncePerFingerprint ==
    s.MatchCacher = "Sha256MapCacher" =>
        \A b1 \in Bytes : \A b2 \in Bytes :
            Sum256(b1) = Sum256(b2) =>
                (IF b1 = b2 THEN delivered[b1] ELSE delivered[b1] + delivered[b2]) <= 1

C2_Witness ==
    /\ s.MatchCacher = "Sha256MapCacher"
    /\ N = 2
    /\ sent["B"] = 2
    /\ delivered["B"] = 1
    /\ cause # Nil
    /\ pc = "returned"

\* C3: when Execute returns nil, with a fresh Sha256MapCacher MatchCallback
\* was invoked exactly once for each distinct accepted byte string sent, with
\* a NopCacher once per accepted byte string sent, counted with multiplicity;
\* sources {A,B} and {B,C} give four calls with NopCacher and three with the
\* exact cacher.
C3_ExactlyOnceOnNil ==
    ReturnedNil =>
        /\ s.MatchCacher = "Sha256MapCacher" =>
              \A b \in Bytes :
                  delivered[b] = IF Accepted(b) /\ sent[b] > 0 THEN 1 ELSE 0
        /\ s.MatchCacher \in {"NopCacher", Nil} =>
              \A b \in Bytes :
                  delivered[b] = IF Accepted(b) THEN sent[b] ELSE 0
        /\ (N = 2 /\ sends = <<2, 2>> /\ data = << <<"A", "B">>, <<"B", "C">> >>) =>
              Callbacks = IF s.MatchCacher = "Sha256MapCacher" THEN 3 ELSE 4

C3_Witness ==
    /\ ReturnedNil
    /\ s.MatchCacher = "Sha256MapCacher"
    /\ N = 2
    /\ sends = <<2, 2>>
    /\ data = << <<"A", "B">>, <<"B", "C">> >>
    /\ Callbacks = 3

\* C4: under ErrorBehaviorCancel, a run in which a data source's failure
\* cancelled the search ends with Execute returning that source's error,
\* never nil.
C4_CancelReturnsSourceError ==
    ( /\ wrapped
      /\ pc = "returned"
      /\ s.DataSourceErrorBehavior = ErrorBehaviorCancel
      /\ firstCause \in ErrorsReturned \ {CtxErr} )
    => ret = firstCause

\* C5: under ErrorBehaviorContinue a failing source never cancels the search
\* context; when Execute returns with the context not cancelled, it returns
\* nil and every accepted byte string that was sent has been delivered.
C5_ContinueOnError ==
    s.DataSourceErrorBehavior = ErrorBehaviorContinue =>
        /\ cause \in {Nil, CtxErr}
        /\ firstCause = cause
        /\ (wrapped /\ pc = "returned" /\ cause = Nil) =>
              /\ ret = Nil
              /\ \A b \in Bytes : (Accepted(b) /\ sent[b] > 0) => delivered[b] >= 1

C5_Witness ==
    /\ s.DataSourceErrorBehavior = ErrorBehaviorContinue
    /\ ReturnedNil
    /\ cause = Nil
    /\ N = 2
    /\ srcRet[1] = SrcErr(1)
    /\ sends[2] = 2
    /\ srcRet[2] = Nil
    /\ \E b \in Bytes : delivered[b] > 0

\* C6: once the search context is cancelled, eventually every source task has
\* returned, the closer has closed the bytes channel and the consumer has
\* returned; no task stays blocked on a send.
C6_CancelStopsEverything ==
    (cause # Nil) ~> (/\ \A i \in Sources : src[i] = "done"
                      /\ closed
                      /\ pc = "returned")

\* C7: a non-nil error Execute returns after the sources were started is the
\* cause of the first cancellation of the search context; no later source
\* failure or external cancellation replaces the cause.
C7_FirstCauseReturned ==
    /\ cause # Nil => cause = firstCause
    /\ firstCause # Nil => firstCause \in {CtxErr} \cup ErrorsReturned
    /\ (wrapped /\ pc = "returned" /\ ret # Nil) => (ret = firstCause /\ ret # Nil)

C7_Witness ==
    /\ wrapped
    /\ pc = "returned"
    /\ N = 2
    /\ ret = SrcErr(2)
    /\ srcRet[1] = SrcErr(1)
    /\ srcRet[2] = SrcErr(2)

\* C8: at most one of DERFilter, Filter, MatchCacher.Cache and MatchCallback
\* is in progress at any time, and it runs in the consumer task.
C8_UserCallsSerial ==
    /\ Cardinality(calls) <= 1
    /\ \A c \in calls : c.task = "consumer"
    /\ calls # {} <=> pc \in {"derFilter", "filter", "cache", "callback"}

C8_Witness ==
    /\ calls = {Call("MatchCallback")}
    /\ N = 2
    /\ \A i \in Sources : src[i] = "running" /\ sends[i] > 0

\* C9: the stages run in order with short-circuiting: a byte string is parsed
\* only if DERFilter accepted it, handed to Filter only if it parsed, handed
\* to Cache only if Filter accepted it, and handed to MatchCallback only if
\* Cache returned false; a byte string DERFilter rejects reaches none of them.
C9_StagesInOrder ==
    /\ \A b \in parsedH : derFilter(b)
    /\ \A b \in filterH : b \in parsedH /\ ParseCertificate(b).err = Nil
    /\ \A b \in cacheH : b \in filterH /\ filter(ParseCertificate(b).cert)
    /\ \A b \in missH : b \in cacheH
    /\ \A b \in Bytes : delivered[b] > 0 => b \in missH
    /\ \A h \in matches : \E b \in cacheH : h = Sum256(b)
    /\ pc = "filter" => cur \in filterH
    /\ pc = "cache" => cur \in cacheH
    /\ pc = "callback" => cur \in missH

C9_Witness ==
    /\ ReturnedNil
    /\ s.DERFilter # Nil
    /\ s.Filter # Nil
    /\ sent["D"] = 1
    /\ sent["F"] = 1
    /\ "D" \notin parsedH
    /\ "F" \in filterH
    /\ "F" \notin cacheH

NoWork ==
    /\ ~wrapped
    /\ wg = 0
    /\ \A i \in Sources : src[i] = "idle" /\ srcRet[i] = "none" /\ sends[i] = 0
    /\ closer = "idle"
    /\ certs = <<>>
    /\ calls = {}
    /\ parsedH = {} /\ filterH = {} /\ cacheH = {} /\ matches = {}
    /\ Callbacks = 0

\* C10: with an invalid configuration, or a context that is already cancelled
\* when Execute is called, Execute returns a non-nil error and no source is
\* started, no task is spawned and no filter, cacher or callback is called.
C10_InvalidReturnsBeforeWork ==
    ( \/ s.DERFilter = Nil /\ s.Filter = Nil
      \/ s.MatchCallback = Nil
      \/ Len(s.DataSources) = 0
      \/ ctxAtCall # Nil )
    => /\ NoWork
       /\ pc \in {"start", "returned"}
       /\ pc = "returned" => ret \notin {Nil, "none"}

C10_Witness ==
    /\ pc = "returned"
    /\ ctxAtCall # Nil
    /\ ValidateParameters(s) = Nil
    /\ N = 2
    /\ ret = CtxErr

\* C11: a byte string that passes DERFilter and fails to parse is skipped: it
\* never reaches Filter, the cacher or the callback, the search is cancelled
\* only by the caller or by a failing source under the Cancel policy, Execute
\* returns nil or the cause of that cancellation, and on a nil return every
\* accepted byte string that was sent was delivered; one source sending an
\* unparseable blob and then a valid certificate gives one callback and nil.
C11_ParseErrorSkipped ==
    /\ \A b \in parsedH :
          ParseCertificate(b).err # Nil =>
              /\ b \notin filterH \cup cacheH \cup missH
              /\ delivered[b] = 0
    /\ cause # Nil =>
          \/ firstCause = CtxErr
          \/ /\ s.DataSourceErrorBehavior = ErrorBehaviorCancel
             /\ firstCause \in ErrorsReturned
    /\ (wrapped /\ pc = "returned") => ret \in {Nil, firstCause}
    /\ ReturnedNil =>
          \A b \in Bytes : (Accepted(b) /\ sent[b] > 0) => delivered[b] >= 1
    /\ (ReturnedNil /\ N = 1 /\ data = << <<"X", "A">> >> /\ sends = <<2>>) =>
          /\ delivered["A"] = 1
          /\ Callbacks = 1

C11_Witness ==
    /\ ReturnedNil
    /\ N = 1
    /\ data = << <<"X", "A">> >>
    /\ sends = <<2>>
    /\ s.DataSourceErrorBehavior = ErrorBehaviorCancel
    /\ "X" \in parsedH
    /\ "X" \notin filterH
    /\ delivered["A"] = 1
    /\ Callbacks = 1

(***************************************************************************)
(* Properties of staticctapi.DataSource.Source.                            *)
(***************************************************************************)

\* The staticctapi data source's Source was called and has returned.
CTReturned ==
    \E i \in Sources : s.DataSources[i] = "staticctapi" /\ src[i] = "done"

\* What its Source returned.
CTResult ==
    LET i == CHOOSE j \in Sources : s.DataSources[j] = "staticctapi" IN srcRet[i]

\* The tile range the bounding search determined.
TileRange == ct.startIndex .. ct.endIndex

Occurrences(seq, x) == Cardinality({ k \in DOMAIN seq : seq[k] = x })

\* The entry is to be sent, as byte string b, under the inclusion flags.
Wanted(entry, b) ==
    \/ entry.IsPrecert /\ ds.IncludePrecertificates /\ entry.PreCertificate = b
    \/ ~entry.IsPrecert /\ ds.IncludeCertificates /\ entry.Certificate = b

\* How often each byte string is to be sent for the given tiles.
ExpectedSent(tiles) ==
    [ b \in Bytes |->
        Cardinality({ e \in tiles \X (1..TileSize) :
            Wanted(GetTileEntries(ds.Log, e[1]).entries[e[2]], b) }) ]

\* The workers ran: the bounding search succeeded.
WorkersRan == ct.startIndex >= 0

\* C12: when the context was cancelled before the staticctapi source had
\* emitted every entry of its tile range, Source returns a non-nil error (the
\* context's cause), also when the workers were already running.
C12_SourceReturnsCause ==
    ( /\ CTReturned
      /\ ct.causeAtReturn # Nil
      /\ WorkersRan => SumOver(sent, Bytes) < SumOver(ExpectedSent(TileRange), Bytes) )
    => CTResult # Nil

\* C13: no tile index is taken from the work channel twice; after a run
\* without cancellation in which every fetch succeeded, every tile of the
\* range was taken exactly once and the byte strings sent are exactly those
\* the inclusion flags select, with multiplicity: 2 x TileSize of them for a
\* two-tile window with both flags set.
C13_EachTileOnceAllEmitted ==
    /\ \A k \in DOMAIN ct.taken :
          ct.taken[k] \in TileRange /\ Occurrences(ct.taken, ct.taken[k]) = 1
    /\ ( /\ CTReturned
         /\ WorkersRan
         /\ ct.causeAtReturn = Nil
         /\ ct.failed = {} )
       => /\ \A k \in TileRange : Occurrences(ct.taken, k) = 1
          /\ sent = ExpectedSent(TileRange)
          /\ ( /\ ct.endIndex = ct.startIndex + 1
               /\ ds.IncludePrecertificates
               /\ ds.IncludeCertificates )
             => SumOver(sent, Bytes) = 2 * TileSize

C13_Witness ==
    /\ CTReturned
    /\ ct.causeAtReturn = Nil
    /\ ct.failed = {}
    /\ ct.startIndex = 0
    /\ ct.endIndex = 1
    /\ ds.MaxConnections = 2
    /\ ds.IncludePrecertificates
    /\ ds.IncludeCertificates
    /\ SumOver(sent, Bytes) = 2 * TileSize

\* C14: a tile whose fetch failed is skipped and Source goes on: once Source
\* has returned after its workers ran, it returned nil, every tile of the
\* range was taken, and the byte strings sent are exactly those of the tiles
\* whose fetch did not fail.
C14_FailedTileSkipped ==
    (CTReturned /\ WorkersRan)
    => /\ CTResult = Nil
       /\ \A k \in TileRange : Occurrences(ct.taken, k) = 1
       /\ ct.failed \subseteq TileRange
       /\ sent = ExpectedSent(TileRange \ ct.failed)

C14_Witness ==
    /\ CTReturned
    /\ ct.causeAtReturn = Nil
    /\ ct.startIndex = 0
    /\ ct.endIndex = 1
    /\ ct.failed = {0}
    /\ ds.IncludePrecertificates
    /\ ds.IncludeCertificates
    /\ SumOver(sent, Bytes) = TileSize

(***************************************************************************)
(* Properties of the functions of package staticctapi.                     *)
(***************************************************************************)

\* The call of op has returned.
Returned(op) == lg.op = op /\ lg.done

\* The timestamps of the first and of the last entry of a full tile.
FirstTimestamp(log, i) == log[i * TileSize + 1].Timestamp
LastTimestamp(log, i) == log[(i + 1) * TileSize].Timestamp

\* The tiles low..high are full tiles of the log and the timestamps of their
\* entries do not decrease.
SortedTiles(log, low, high) ==
    /\ 0 <= low
    /\ low <= high
    /\ (high + 1) * TileSize <= Len(log)
    /\ \A k \in (low * TileSize + 1) .. ((high + 1) * TileSize - 1) :
          log[k].Timestamp <= log[k + 1].Timestamp

\* C15: over full tiles low..high with non-decreasing timestamps,
\* GetTileIndexFromTime returns a tile of [low, high] that contains t whenever
\* t lies within [firstTimestamp(low), lastTimestamp(high)], and fails only
\* when t lies outside of it.
C15_TileFoundWithinRange ==
    ( /\ Returned("GetTileIndexFromTime")
      /\ SortedTiles(lg.in.log, lg.in.startTile, lg.in.endTile) )
    => LET log == lg.in.log
           t == lg.in.t
           within == /\ FirstTimestamp(log, lg.in.startTile) <= t
                     /\ t <= LastTimestamp(log, lg.in.endTile)
       IN /\ within =>
                /\ lg.out.err = Nil
                /\ lg.out.index \in lg.in.startTile .. lg.in.endTile
                /\ FirstTimestamp(log, lg.out.index) <= t
                /\ t <= LastTimestamp(log, lg.out.index)
          /\ lg.out.err # Nil => ~within

\* C16: when GetBoundingTilesFromTimes succeeds, 0 <= startTile <= endTile <=
\* the last tile index it searched up to; a call with startTime not before
\* endTime fails without any request to the log.
C16_BoundsOrdered ==
    Returned("GetBoundingTilesFromTimes")
    => /\ lg.out.err = Nil =>
             /\ 0 <= lg.out.startIndex
             /\ lg.out.startIndex <= lg.out.endIndex
             /\ lg.out.endIndex <= GetLastFullTileIndex(lg.in.log)
       /\ ~(lg.in.startTime < lg.in.endTime) =>
             /\ lg.out.err # Nil
             /\ lg.out.fetches = 0

C16_Witness ==
    /\ Returned("GetBoundingTilesFromTimes")
    /\ lg.out.err = Nil
    /\ lg.out.startIndex = 0
    /\ lg.out.endIndex = 1
    /\ lg.in.startTime = 10
    /\ lg.in.endTime = 30

\* C17: the index GetLastFullTileIndex returns for a tree of size S is that of
\* a full tile: TileSize * (index + 1) <= S.
C17_LastTileIsFull ==
    Returned("GetLastFullTileIndex")
    => TileSize * (lg.out + 1) <= Len(lg.in.log)

\* The number of base-1000 digits of i >= 0.
RECURSIVE Groups(_)
Groups(i) == IF i < 1000 THEN 1 ELSE 1 + Groups(i \div 1000)

\* A tile path read back: each segment is a base-1000 digit.
SegmentValue(seg) == seg.digits[1] * 100 + seg.digits[2] * 10 + seg.digits[3]

RECURSIVE ParseTilePath(_)
ParseTilePath(path) ==
    IF path = <<>> THEN 0
    ELSE ParseTilePath(SubSeq(path, 1, Len(path) - 1)) * 1000 + SegmentValue(path[Len(path)])

\* C18: TilePathFromIndex(I) has one segment of three digits per base-1000
\* digit of I, all but the last marked with x; read back as base-1000 digits
\* it yields I, and no other index has the same path.
C18_TilePathRoundTrip ==
    Returned("TilePathFromIndex")
    => LET path == lg.out
           I == lg.in.tileIndex
       IN /\ Len(path) = Groups(I)
          /\ \A k \in DOMAIN path :
                /\ Len(path[k].digits) = 3
                /\ \A d \in DOMAIN path[k].digits : path[k].digits[d] \in 0..9
                /\ path[k].x = (k < Len(path))
          /\ ParseTilePath(path) = I
          /\ \A j \in TileIndexes : TilePathFromIndex(j) = path => j = I

C18_Witness ==
    /\ Returned("TilePathFromIndex")
    /\ lg.in.tileIndex = 1000000
    /\ lg.out = << Segment(TRUE, <<0, 0, 1>>), Segment(TRUE, <<0, 0, 0>>),
                   Segment(FALSE, <<0, 0, 0>>) >>

\* C19: Validate returns an error when MaxAttempts < 1, MaxInterval <= 0,
\* Timeout <= 0 or Timeout <= MaxInterval, and nil when MaxAttempts >= 1 and
\* 0 < MaxInterval < Timeout.
C19_ValidateRejects ==
    Returned("Validate")
    => LET r == lg.in.r
       IN /\ ( \/ r.MaxAttempts < 1
               \/ r.MaxInterval <= 0
               \/ r.Timeout <= 0
               \/ r.Timeout <= r.MaxInterval ) => lg.out # Nil
          /\ ( /\ r.MaxAttempts >= 1
               /\ 0 < r.MaxInterval
               /\ r.MaxInterval < r.Timeout ) => lg.out = Nil

C19_Witness ==
    /\ Returned("Validate")
    /\ lg.in.r = [ MaxAttempts |-> 1, MaxInterval |-> 2, Timeout |-> 2 ]
    /\ lg.out = "timeout less than or equal to max interval"

\* The attempts GetTileEntriesWithBackoff may make: TileRetry.MaxAttempts when
\* TileRetry validates, otherwise the default 5.
AttemptBudget ==
    LET r == lg.in.TileRetry
    IN IF r.MaxAttempts >= 1 /\ 0 < r.MaxInterval /\ r.MaxInterval < r.Timeout
       THEN r.MaxAttempts
       ELSE 5

\* GetTileEntriesWithBackoff makes no more attempts than its budget and
\* returns at the first that succeeds.
AttemptsBounded ==
    /\ lg.attempts <= AttemptBudget
    /\ lg.successes <= 1
    /\ lg.successes = 1 => lg.done /\ lg.out.err = Nil
    /\ (lg.done /\ lg.out.err = Nil) => lg.successes = 1

\* C20, as stated: at most the budget of attempts, none after the first
\* success, and none once the context is cancelled.
C20_NoAttemptAfterCancel ==
    lg.op = "GetTileEntriesWithBackoff"
    => /\ AttemptsBounded
       /\ lg.afterCancel = 0

\* C20, amended: at most the budget of attempts, none after the first
\* success, and at most one attempt once the context is cancelled, which
\* fails and ends the call with an error.
C20_OneAttemptAfterCancel ==
    lg.op = "GetTileEntriesWithBackoff"
    => /\ AttemptsBounded
       /\ lg.afterCancel <= 1
       /\ (lg.afterCancel = 1 /\ lg.phase # "operation") =>
             lg.done /\ lg.out.err # Nil

C20_Witness ==
    /\ Returned("GetTileEntriesWithBackoff")
    /\ Validate(lg.in.TileRetry) # Nil
    /\ lg.attempts = 5
    /\ lg.ctxErr # Nil
    /\ lg.afterCancel = 1
    /\ lg.out.err # Nil

(***************************************************************************)
(* Properties of the cachers.                                              *)
(***************************************************************************)

\* C21: a BloomCacher never reports a certificate it has recorded as absent:
\* fed the same certificates as a Sha256MapCacher, it leads to no more
\* MatchCallback invocations, and to at most one per certificate.
C21_BloomOnlySuppresses ==
    lg.op = "Cache"
    => /\ \A k \in 1..lg.k :
             BloomCacherCache(lg.bloom, [Raw |-> lg.in[k]]).present
       /\ lg.bloomCalls <= lg.shaCalls
       /\ \A b \in DOMAIN lg.bloomDelivered : lg.bloomDelivered[b] <= 1

C21_Witness ==
    /\ lg.op = "Cache"
    /\ lg.done
    /\ lg.in = <<"A", "B", "C", "A">>
    /\ lg.bloomCalls = 2
    /\ lg.shaCalls = 3

(***************************************************************************)
(* Termination of Search.Execute.                                          *)
(***************************************************************************)

\* Execute was called with a valid configuration and a live context.
ValidCall == ValidateParameters(s) = Nil /\ ctxAtCall = Nil

\* C22: when Execute returns nil the channel is closed and empty and every
\* data source has returned; and a valid call whose context is never
\* cancelled eventually returns nil.
C22_EventuallyReturnsNil ==
    /\ [](ReturnedNil => (closed /\ certs = <<>> /\ \A i \in Sources : src[i] = "done"))
    /\ <>(~ValidCall \/ cause # Nil \/ ReturnedNil)

C22_Witness ==
    /\ ReturnedNil
    /\ cause = Nil
    /\ s.DataSourceErrorBehavior = ErrorBehaviorContinue
    /\ N = 2
    /\ sends = <<2, 2>>
    /\ srcRet = <<SrcErr(1), Nil>>
    /\ closed
    /\ certs = <<>>

\* C23: once the search context is cancelled, the consumer takes no further
\* byte string from the channel at its select: neither the filters, nor the
\* cacher, nor MatchCallback are invoked for what is buffered or sent after
\* the cancellation.
C23_NoReceiveAfterCancel ==
    [][(cause # Nil /\ pc = "select") => pc' \in {"select", "returned"}]_vars

(***************************************************************************)
(* Further properties of the tile search.                                  *)
(***************************************************************************)

\* The number of full tiles of the log.
FullTiles(log) == Len(log) \div TileSize

\* C24: for a log whose full tiles hold non-decreasing timestamps and a
\* window startTime < endTime within their time range, the tile range the
\* bounding search returns holds every entry of the full tiles whose timestamp
\* lies within the window, bounds included.
C24_WindowCovered ==
    ( /\ Returned("GetBoundingTilesFromTimes")
      /\ lg.out.err = Nil
      /\ FullTiles(lg.in.log) >= 1
      /\ SortedTiles(lg.in.log, 0, FullTiles(lg.in.log) - 1)
      /\ lg.in.startTime < lg.in.endTime
      /\ FirstTimestamp(lg.in.log, 0) <= lg.in.startTime
      /\ lg.in.endTime <= LastTimestamp(lg.in.log, FullTiles(lg.in.log) - 1) )
    => \A k \in 1 .. (FullTiles(lg.in.log) * TileSize) :
          ( /\ lg.in.startTime <= lg.in.log[k].Timestamp
            /\ lg.in.log[k].Timestamp <= lg.in.endTime )
          => (k - 1) \div TileSize \in lg.out.startIndex .. lg.out.endIndex

\* C25: a call of GetTileIndexFromTime returns; each iteration's pivot lies
\* within its interval, the next interval is strictly smaller and leaves the
\* pivot out, so no tile is fetched twice; at most endTile - startTile + 1
\* tiles are fetched, none when startTile > endTile (an error) or startTile
\* < 0 (an error), and nothing is fetched after a fetch has failed.
C25_SearchTerminates ==
    Returned("GetTileIndexFromTime")
    => LET r == lg.out
           lo == lg.in.startTile
           hi == lg.in.endTile
           n == Len(r.trace)
       IN /\ r.fetches = n
          /\ \A k \in 1..n :
                /\ r.trace[k].startIndex <= r.trace[k].pivotIndex
                /\ r.trace[k].pivotIndex <= r.trace[k].endIndex
                /\ lo <= r.trace[k].startIndex
                /\ r.trace[k].endIndex <= hi
          /\ \A k \in 1..(n - 1) :
                /\ r.trace[k].startIndex <= r.trace[k + 1].startIndex
                /\ r.trace[k + 1].endIndex <= r.trace[k].endIndex
                /\ r.trace[k].pivotIndex \notin
                       r.trace[k + 1].startIndex .. r.trace[k + 1].endIndex
                /\ GetTileEntries(lg.in.log, r.trace[k].pivotIndex).err = Nil
          /\ \A j, k \in 1..n : j # k => r.trace[j].pivotIndex # r.trace[k].pivotIndex
          /\ n <= (IF hi >= lo THEN hi - lo + 1 ELSE 0)
          /\ (lo > hi \/ lo < 0) => (n = 0 /\ r.err # Nil)
          /\ (n > 0 /\ GetTileEntries(lg.in.log, r.trace[n].pivotIndex).err # Nil)
                => r.err # Nil

C25_Witness ==
    /\ Returned("GetTileIndexFromTime")
    /\ lg.in.log \in LongLogs
    /\ lg.in.startTile = 0
    /\ lg.in.endTile = 5
    /\ lg.in.t = 20
    /\ lg.out.err = Nil
    /\ lg.out.index = 1
    /\ lg.out.fetches = 3
    /\ lg.out.trace =
          << [ startIndex |-> 0, endIndex |-> 5, pivotIndex |-> 2 ],
             [ startIndex |-> 0, endIndex |-> 1, pivotIndex |-> 0 ],
             [ startIndex |-> 1, endIndex |-> 1, pivotIndex |-> 1 ] >>

============================================================================
